---- MODULE Spec2Model ----
(***************************************************************************)
(* Byte-aligned carry-less binary arithmetic coder (main.cpp):             *)
(* BinArithEncoder, BinArithDecoder, BinShiftModel and BitTreeModel.       *)
(*                                                                         *)
(* A uint32_t is kept as a pair <<h, l>> of 16-bit halves, value           *)
(* h * 2^16 + l, because the model checker's integers are 32-bit signed.   *)
(* All word operators below are exact modulo 2^32.                         *)
(***************************************************************************)
EXTENDS Integers, Sequences, FiniteSets, TLC

\* ------------------------------------------------------------------ bounds
\* longest bit sequence encoded in the static and the adaptive sessions
MaxBits == 7
\* most encode calls of a session whose probability changes per call
MaxCalls == 6
\* longest arbitrary byte source handed to a decoder, and most decode calls on it
MaxRaw == 5
MaxRawDecodes == 2
\* largest Inertia template argument
MaxInertia == 5
\* most adapt calls made on one model from an arbitrary starting value
MaxAdapts == 2
\* largest NumBits template argument and longest symbol sequence
MaxNumBits == 2
MaxSyms == 3
\* longest run of equal bits fed to one model
MaxRun == 90

\* ------------------------------------------------------- program constants
kProbBits == 12
kProbMax == 2^kProbBits

\* ------------------------------------------------------------ 32-bit words
Half == 2^16
Byte == 2^8

\* lo(0)
Zero32 == <<0, 0>>
\* hi(~0u)
Ones32 == <<Half - 1, Half - 1>>
\* the renormalization threshold taken as 1u << 16
Bit24_Low == <<1, 0>>
\* 1u << 24
Bit24 == <<Byte, 0>>

Add32(a, b) ==
    LET s == a[2] + b[2]
    IN  <<(a[1] + b[1] + (s \div Half)) % Half, s % Half>>

Sub32(a, b) ==
    LET borrow == IF a[2] < b[2] THEN 1 ELSE 0
    IN  <<(a[1] + Half - b[1] - borrow) % Half, (a[2] + Half - b[2]) % Half>>

Inc32(a) == Add32(a, <<0, 1>>)

Lt32(a, b) == a[1] < b[1] \/ (a[1] = b[1] /\ a[2] < b[2])
Leq32(a, b) == a = b \/ Lt32(a, b)

\* w << 8
Shl8(w) == <<(w[1] % Byte) * Byte + (w[2] \div Byte), (w[2] % Byte) * Byte>>
\* (w << 8) | 0xff
Shl8Or255(w) == <<Shl8(w)[1], Shl8(w)[2] + (Byte - 1)>>
\* (w << 8) | b, b a byte
Shl8OrByte(w, b) == <<Shl8(w)[1], Shl8(w)[2] + b>>
\* w >> 24, as the uint8_t pushed to the sink
Shr24(w) == w[1] \div Byte

RECURSIVE XorBits(_, _, _)
XorBits(a, b, n) ==
    IF n = 0 THEN 0
    ELSE (((a % 2) + (b % 2)) % 2) + 2 * XorBits(a \div 2, b \div 2, n - 1)

\* a ^ b
Xor32(a, b) == <<XorBits(a[1], b[1], 16), XorBits(a[2], b[2], 16)>>

\* MulShr shifting by one bit too few
MulShr_WrongShift(d, p) ==
    LET A  == d[1] * p
        B  == d[2] * p
        Ah == A \div (kProbMax \div 2)
        Al == A % (kProbMax \div 2)
        low == Al * ((2 * Half) \div kProbMax) + (B \div (kProbMax \div 2))
    IN  <<(Ah + (low \div Half)) % Half, low % Half>>

\* (uint64_t(d) * prob) >> kProbBits, truncated to 32 bits; prob <= kProbMax
MulShr(d, p) ==
    LET A  == d[1] * p
        B  == d[2] * p
        Ah == A \div kProbMax
        Al == A % kProbMax
        low == Al * (Half \div kProbMax) + (B \div kProbMax)
    IN  <<(Ah + (low \div Half)) % Half, low % Half>>

\* uint32_t x = lo + ((uint64_t(hi - lo) * prob) >> kProbBits)
Midpoint(lo, hi, p) == Add32(lo, MulShr(Sub32(hi, lo), p))


\* ------------------------------------------------------------------ state
VARIABLES
    source,     \* the bits (or symbols) handed to the encoder so far
    prob,       \* the static probability of a 1 (kProbOne in example_static)
    enc,        \* BinArithEncoder: [lo, hi]
    coded,      \* the ByteVec both coders are bound to (their member "bytes")
    dec,        \* BinArithDecoder: [code, lo, hi, read_pos]
    decoded,    \* the bits (or symbols) the decoder has returned so far
    pc,         \* "encode", "coded", "decode", "abort" or "fault"
    Inertia,    \* template argument of BinShiftModel
    NumBits,    \* template argument of BitTreeModel
    enc_model,  \* the model used beside the encoder: a sequence of prob fields
    dec_model,  \* the model used beside the decoder
    path        \* <<ctx, bit>> of each model[ctx - 1] call of the last BitTreeModel call

vars == <<source, prob, enc, coded, dec, decoded, pc, Inertia, NumBits,
          enc_model, dec_model, path>>

\* ------------------------------------------------------- BinArithEncoder
\* explicit BinArithEncoder(ByteVec &target) : lo(0), hi(~0u), bytes(target)
BinArithEncoder_new == [lo |-> Zero32, hi |-> Ones32]

\* while ((lo ^ hi) < (1u << 24)) { bytes.push_back(lo >> 24); lo <<= 8; hi = (hi << 8) | 0xff; }
RECURSIVE EncRenorm(_, _, _)
EncRenorm(lo, hi, bytes) ==
    IF Lt32(Xor32(lo, hi), Bit24)
    THEN EncRenorm(Shl8(lo), Shl8Or255(hi), Append(bytes, Shr24(lo)))
    ELSE [lo |-> lo, hi |-> hi, bytes |-> bytes]

\* EncSubdivide with lo = x in place of lo = x + 1
EncSubdivide_NoInc(e, bit, p) ==
    LET x == Midpoint(e.lo, e.hi, p)
    IN  IF bit # 0 THEN [lo |-> e.lo, hi |-> x]
        ELSE [lo |-> x, hi |-> e.hi]

\* if (bit) hi = x; else lo = x + 1;   (the encoder's subdivision)
EncSubdivide(e, bit, p) ==
    LET x == Midpoint(e.lo, e.hi, p)
    IN  IF bit # 0 THEN [lo |-> e.lo, hi |-> x]
        ELSE [lo |-> Inc32(x), hi |-> e.hi]

\* void encode(int bit, uint32_t prob): the new [lo, hi, bytes]
BinArithEncoder_encode(e, bytes, bit, p) ==
    LET s == EncSubdivide(e, bit, p)
    IN  EncRenorm(s.lo, s.hi, bytes)

\* ~BinArithEncoder(): four times bytes.push_back(lo >> 24); lo <<= 8;
RECURSIVE Flush(_, _, _)
Flush(lo, bytes, i) ==
    IF i < 4 THEN Flush(Shl8(lo), Append(bytes, Shr24(lo)), i + 1)
    ELSE [lo |-> lo, bytes |-> bytes]

\* the destructor writing the four bytes over the sink from its start
BinArithEncoder_delete_Fresh(e, bytes) == Flush(e.lo, <<>>, 0)

\* the destructor flushing hi in place of lo
BinArithEncoder_delete_Hi(e, bytes) == Flush(e.hi, bytes, 0)


BinArithEncoder_delete(e, bytes) == Flush(e.lo, bytes, 0)

\* ------------------------------------------------------- BinArithDecoder
\* values an out-of-bounds bytes[read_pos] may yield when it does not trap
GarbageBytes == {0, 255}
GarbageSeqs == [1..4 -> GarbageBytes]
NoGarbage == [i \in 1..4 |-> 0]

\* bytes[read_pos]: std::vector::operator[] is unchecked, an index >= size()
\* is undefined behaviour and yields the garbage byte g
ReadByte(bytes, read_pos, g) ==
    IF read_pos < Len(bytes) THEN bytes[read_pos + 1] ELSE g

\* code = 0; for (int i = 0; i < 4; ++i) code = (code << 8) | bytes[read_pos++];
RECURSIVE Bootstrap(_, _, _, _)
Bootstrap(code, bytes, g, i) ==
    IF i < 4
    THEN Bootstrap(Shl8OrByte(code, ReadByte(bytes, i, g[i + 1])), bytes, g, i + 1)
    ELSE code

\* explicit BinArithDecoder(ByteVec const &source)
BinArithDecoder_new(bytes, g) ==
    [code |-> Bootstrap(Zero32, bytes, g, 0), lo |-> Zero32, hi |-> Ones32,
     read_pos |-> 4]

\* while ((lo ^ hi) < (1u << 24)) { code = (code << 8) | bytes[read_pos++]; ... }
\* n counts the reads of this call
RECURSIVE DecRenorm(_, _, _, _)
DecRenorm(d, bytes, g, n) ==
    IF Lt32(Xor32(d.lo, d.hi), Bit24)
    THEN DecRenorm([code |-> Shl8OrByte(d.code, ReadByte(bytes, d.read_pos, g[n + 1])),
                    lo |-> Shl8(d.lo), hi |-> Shl8Or255(d.hi),
                    read_pos |-> d.read_pos + 1], bytes, g, n + 1)
    ELSE d

\* DecSubdivide with lo = x in place of lo = x + 1
DecSubdivide_NoInc(d, p) ==
    LET x == Midpoint(d.lo, d.hi, p)
    IN  IF Leq32(d.code, x)
        THEN [d |-> [d EXCEPT !.hi = x], bit |-> 1]
        ELSE [d |-> [d EXCEPT !.lo = x], bit |-> 0]

\* DecSubdivide with code < x in place of code <= x
DecSubdivide_Lt(d, p) ==
    LET x == Midpoint(d.lo, d.hi, p)
    IN  IF Lt32(d.code, x)
        THEN [d |-> [d EXCEPT !.hi = x], bit |-> 1]
        ELSE [d |-> [d EXCEPT !.lo = Inc32(x)], bit |-> 0]

\* if (code <= x) { hi = x; bit = 1; } else { lo = x + 1; bit = 0; }
DecSubdivide(d, p) ==
    LET x == Midpoint(d.lo, d.hi, p)
    IN  IF Leq32(d.code, x)
        THEN [d |-> [d EXCEPT !.hi = x], bit |-> 1]
        ELSE [d |-> [d EXCEPT !.lo = Inc32(x)], bit |-> 0]

\* int decode(uint32_t prob): the new decoder state and the returned bit
BinArithDecoder_decode(d, bytes, p, g) ==
    LET s == DecSubdivide(d, p)
    IN  [d |-> DecRenorm(s.d, bytes, g, 0), bit |-> s.bit]

\* a decoder that has not been constructed yet
NoDecoder == [code |-> Zero32, lo |-> Zero32, hi |-> Ones32, read_pos |-> 0]

\* ------------------------------------------- steps shared by the sessions
\* the encoder goes out of scope: the stream is complete
Finalize ==
    /\ pc = "encode"
    /\ LET f == BinArithEncoder_delete(enc, coded)
       IN  /\ coded' = f.bytes
           /\ enc' = [enc EXCEPT !.lo = f.lo]
    /\ pc' = "coded"
    /\ UNCHANGED <<path, source, prob, dec, decoded, Inertia, NumBits, enc_model, dec_model>>

\* BinArithDecoder coder(coded): an out-of-bounds read either traps or yields garbage
DecoderInit ==
    /\ pc = "coded"
    /\ IF Len(coded) >= 4
       THEN /\ dec' = BinArithDecoder_new(coded, NoGarbage)
            /\ pc' = "decode"
       ELSE \/ \E g \in GarbageSeqs :
                 /\ dec' = BinArithDecoder_new(coded, g)
                 /\ pc' = "decode"
            \/ /\ dec' = [NoDecoder EXCEPT !.read_pos = Len(coded) + 1]
               /\ pc' = "fault"
    /\ UNCHANGED <<path, source, prob, enc, coded, decoded, Inertia, NumBits,
                   enc_model, dec_model>>

\* ------------------------------------------------- example_static session
StaticProbs == {0, 1, kProbMax \div 5, kProbMax \div 2, kProbMax - 1, kProbMax}

InitStatic ==
    /\ source = <<>>
    /\ prob \in StaticProbs
    /\ enc = BinArithEncoder_new
    /\ coded = <<>>
    /\ dec = NoDecoder
    /\ decoded = <<>>
    /\ pc = "encode"
    /\ Inertia = 0
    /\ NumBits = 0
    /\ enc_model = <<>>
    /\ dec_model = <<>>
    /\ path = <<>>

\* coder.encode(source[i], kProbOne)
StaticEncode(bit) ==
    /\ pc = "encode"
    /\ Len(source) < MaxBits
    /\ LET r == BinArithEncoder_encode(enc, coded, bit, prob)
       IN  /\ enc' = [lo |-> r.lo, hi |-> r.hi]
           /\ coded' = r.bytes
    /\ source' = Append(source, bit)
    /\ UNCHANGED <<path, prob, dec, decoded, pc, Inertia, NumBits, enc_model, dec_model>>

\* the result of one decode call on dec; needs is whether the call reads past the end
DecodeNeedsMore(d, bytes, p) ==
    BinArithDecoder_decode(d, bytes, p, NoGarbage).d.read_pos > Len(bytes)

\* decoded.push_back(coder.decode(kProbOne))
StaticDecode ==
    /\ pc = "decode"
    /\ Len(decoded) < Len(source)
    /\ IF ~DecodeNeedsMore(dec, coded, prob)
       THEN LET r == BinArithDecoder_decode(dec, coded, prob, NoGarbage)
            IN  /\ dec' = r.d
                /\ decoded' = Append(decoded, r.bit)
                /\ pc' = pc
       ELSE \/ \E g \in GarbageSeqs :
                 LET r == BinArithDecoder_decode(dec, coded, prob, g)
                 IN  /\ dec' = r.d
                     /\ decoded' = Append(decoded, r.bit)
                     /\ pc' = pc
            \/ /\ dec' = [dec EXCEPT !.read_pos = Len(coded) + 1]
               /\ decoded' = decoded
               /\ pc' = "fault"
    /\ UNCHANGED <<path, source, prob, enc, coded, Inertia, NumBits, enc_model, dec_model>>

NextStatic ==
    \/ \E bit \in {0, 1} : StaticEncode(bit)
    \/ Finalize
    \/ DecoderInit
    \/ StaticDecode

SpecStatic == InitStatic /\ [][NextStatic]_vars


\* --------------------------------------------------------- BinShiftModel
\* BinShiftModel() : prob(kProbMax / 2) {}
BinShiftModel_new == kProbMax \div 2

\* adapt with the two directions exchanged
BinShiftModel_adapt_Swapped(p, bit, inertia) ==
    IF bit # 0
    THEN (p + Half - (p \div (2^inertia))) % Half
    ELSE (p + ((kProbMax - p) \div (2^inertia))) % Half

\* adapt shifting by Inertia - 1
BinShiftModel_adapt_ShiftLess(p, bit, inertia) ==
    IF bit # 0
    THEN (p + ((kProbMax - p) \div (2^(inertia - 1)))) % Half
    ELSE (p + Half - (p \div (2^(inertia - 1)))) % Half

\* void adapt(int bit), on the uint16_t field prob (prob <= kProbMax in every
\* state reached here, so the 32-bit kProbMax - prob does not wrap)
BinShiftModel_adapt(p, bit, inertia) ==
    IF bit # 0
    THEN (p + ((kProbMax - p) \div (2^inertia))) % Half
    ELSE (p + Half - (p \div (2^inertia))) % Half

\* void encode(BinArithEncoder &enc, int bit): enc.encode(bit, prob); adapt(bit);
BinShiftModel_encode(p, inertia, e, bytes, bit) ==
    LET r == BinArithEncoder_encode(e, bytes, bit, p)
    IN  [lo |-> r.lo, hi |-> r.hi, bytes |-> r.bytes,
         prob |-> BinShiftModel_adapt(p, bit, inertia)]

\* decode that forgets to adapt
BinShiftModel_decode_NoAdapt(p, inertia, d, bytes, g) ==
    LET r == BinArithDecoder_decode(d, bytes, p, g)
    IN  [d |-> r.d, bit |-> r.bit, prob |-> p]

\* int decode(BinArithDecoder &dec): bit = dec.decode(prob); adapt(bit); return bit;
BinShiftModel_decode(p, inertia, d, bytes, g) ==
    LET r == BinArithDecoder_decode(d, bytes, p, g)
    IN  [d |-> r.d, bit |-> r.bit, prob |-> BinShiftModel_adapt(p, r.bit, inertia)]

\* ------------------------------------------------ example_dynamic session
InitShift ==
    /\ source = <<>>
    /\ prob = 0
    /\ enc = BinArithEncoder_new
    /\ coded = <<>>
    /\ dec = NoDecoder
    /\ decoded = <<>>
    /\ pc = "encode"
    /\ Inertia \in 1..MaxInertia
    /\ NumBits = 0
    /\ enc_model = <<BinShiftModel_new>>
    /\ dec_model = <<BinShiftModel_new>>
    /\ path = <<>>

\* model.encode(coder, source[i])
ShiftEncode(bit) ==
    /\ pc = "encode"
    /\ Len(source) < MaxBits
    /\ LET r == BinShiftModel_encode(enc_model[1], Inertia, enc, coded, bit)
       IN  /\ enc' = [lo |-> r.lo, hi |-> r.hi]
           /\ coded' = r.bytes
           /\ enc_model' = <<r.prob>>
    /\ source' = Append(source, bit)
    /\ UNCHANGED <<path, prob, dec, decoded, pc, Inertia, NumBits, dec_model>>

\* decoded.push_back(model.decode(coder))
ShiftDecode ==
    /\ pc = "decode"
    /\ Len(decoded) < Len(source)
    /\ IF ~DecodeNeedsMore(dec, coded, dec_model[1])
       THEN LET r == BinShiftModel_decode(dec_model[1], Inertia, dec, coded, NoGarbage)
            IN  /\ dec' = r.d
                /\ decoded' = Append(decoded, r.bit)
                /\ dec_model' = <<r.prob>>
                /\ pc' = pc
       ELSE \/ \E g \in GarbageSeqs :
                 LET r == BinShiftModel_decode(dec_model[1], Inertia, dec, coded, g)
                 IN  /\ dec' = r.d
                     /\ decoded' = Append(decoded, r.bit)
                     /\ dec_model' = <<r.prob>>
                     /\ pc' = pc
            \/ /\ dec' = [dec EXCEPT !.read_pos = Len(coded) + 1]
               /\ decoded' = decoded
               /\ dec_model' = dec_model
               /\ pc' = "fault"
    /\ UNCHANGED <<path, source, prob, enc, coded, Inertia, NumBits, enc_model>>

NextShift ==
    \/ \E bit \in {0, 1} : ShiftEncode(bit)
    \/ Finalize
    \/ DecoderInit
    \/ ShiftDecode

SpecShift == InitShift /\ [][NextShift]_vars

\* ------------------------------------------- BinShiftModel::adapt alone
InitAdapt ==
    /\ source = <<>>
    /\ prob = 0
    /\ enc = BinArithEncoder_new
    /\ coded = <<>>
    /\ dec = NoDecoder
    /\ decoded = <<>>
    /\ pc = "adapt"
    /\ Inertia \in 1..MaxInertia
    /\ NumBits = 0
    /\ \E p \in 1..(kProbMax - 1) : enc_model = <<p>>
    /\ dec_model = <<>>
    /\ path = <<>>

\* model.adapt(bit)
Adapt(bit) ==
    /\ pc = "adapt"
    /\ Len(source) < MaxAdapts
    /\ enc_model' = <<BinShiftModel_adapt(enc_model[1], bit, Inertia)>>
    /\ source' = Append(source, bit)
    /\ UNCHANGED <<path, prob, enc, coded, dec, decoded, pc, Inertia, NumBits, dec_model>>

NextAdapt == \E bit \in {0, 1} : Adapt(bit)

SpecAdapt == InitAdapt /\ [][NextAdapt]_vars


\* ------------------------------------------- a run of equal bits, adapted
\* static int const kInertia = 4;
kInertia == 4

\* BinShiftModel<kInertia> model, freshly constructed
InitRun ==
    /\ source = <<>>
    /\ prob = 0
    /\ enc = BinArithEncoder_new
    /\ coded = <<>>
    /\ dec = NoDecoder
    /\ decoded = <<>>
    /\ pc = "run"
    /\ Inertia = kInertia
    /\ NumBits = 0
    /\ enc_model = <<BinShiftModel_new>>
    /\ dec_model = <<>>
    /\ path = <<>>

\* model.adapt(bit), every call of the run with the bit of the first
RunAdapt(bit) ==
    /\ pc = "run"
    /\ Len(source) < MaxRun
    /\ source # <<>> => bit = source[1]
    /\ enc_model' = <<BinShiftModel_adapt(enc_model[1], bit, Inertia)>>
    /\ source' = Append(source, bit)
    /\ UNCHANGED <<prob, enc, coded, dec, decoded, pc, Inertia, NumBits, dec_model, path>>

NextRun == \E bit \in {0, 1} : RunAdapt(bit)

SpecRun == InitRun /\ [][NextRun]_vars

\* ---------------------------------------------------------- BitTreeModel
\* static size_t const kNumSyms = 1 << NumBits;
kNumSyms(nb) == 2^nb
\* kMSB taken for the whole alphabet size: the bit tested is never set
kMSB_Top(nb) == kNumSyms(nb)

\* static size_t const kMSB = kNumSyms / 2;
kMSB(nb) == kNumSyms(nb) \div 2

\* BitModel model[kNumSyms - 1], each default-constructed; model[ctx - 1] of
\* the source is element ctx of the sequence
BitTreeModel_new(nb) == [i \in 1..(kNumSyms(nb) - 1) |-> BinShiftModel_new]

\* the loop condition of encode and of decode running one context too far
TreeLoopRuns_Leq(ctx, nb) == ctx <= kNumSyms(nb)

\* while (ctx < kNumSyms)
TreeLoopRuns(ctx, nb) == ctx < kNumSyms(nb)

\* model[ctx - 1]: the array is unchecked; a slot outside it is undefined
\* behaviour, read here as a fresh model
ModelAt(model, ctx) ==
    IF ctx \in DOMAIN model THEN model[ctx] ELSE BinShiftModel_new

\* the adapted prob written back to model[ctx - 1]; outside the array the
\* write lands beside it and the array keeps its contents
ModelPut(model, ctx, p) ==
    IF ctx \in DOMAIN model THEN [model EXCEPT ![ctx] = p] ELSE model

\* while (ctx < kNumSyms) { bit = (value & kMSB) != 0; value += value;
\*                          model[ctx - 1].encode(enc, bit); ctx += ctx + bit; }
RECURSIVE TreeEncodeLoop(_, _, _, _, _, _, _)
TreeEncodeLoop(ctx, value, e, bytes, model, nb, inertia) ==
    IF TreeLoopRuns(ctx, nb)
    THEN LET bit == IF (value \div kMSB(nb)) % 2 # 0 THEN 1 ELSE 0
             r == BinShiftModel_encode(ModelAt(model, ctx), inertia, e, bytes, bit)
         IN  [TreeEncodeLoop(ctx + ctx + bit, value + value,
                             [lo |-> r.lo, hi |-> r.hi], r.bytes,
                             ModelPut(model, ctx, r.prob), nb, inertia)
                 EXCEPT !.path = <<<<ctx, bit>>>> \o @]
    ELSE [lo |-> e.lo, hi |-> e.hi, bytes |-> bytes, model |-> model,
          aborted |-> FALSE, path |-> <<>>]

\* encode asserting value <= kNumSyms
BitTreeModel_encode_OffByOne(model, nb, inertia, e, bytes, value) ==
    IF ~(value <= kNumSyms(nb))
    THEN [lo |-> e.lo, hi |-> e.hi, bytes |-> bytes, model |-> model,
          aborted |-> TRUE, path |-> <<>>]
    ELSE TreeEncodeLoop(1, value, e, bytes, model, nb, inertia)

\* void encode(BinArithEncoder &enc, size_t value): assert(value < kNumSyms)
\* aborts the program before the loop
BitTreeModel_encode(model, nb, inertia, e, bytes, value) ==
    IF ~(value < kNumSyms(nb))
    THEN [lo |-> e.lo, hi |-> e.hi, bytes |-> bytes, model |-> model,
          aborted |-> TRUE, path |-> <<>>]
    ELSE TreeEncodeLoop(1, value, e, bytes, model, nb, inertia)

\* while (ctx < kNumSyms) ctx += ctx + model[ctx - 1].decode(dec);
RECURSIVE TreeDecodeLoop(_, _, _, _, _, _, _)
TreeDecodeLoop(ctx, d, bytes, model, nb, inertia, g) ==
    IF TreeLoopRuns(ctx, nb)
    THEN LET r == BinShiftModel_decode(ModelAt(model, ctx), inertia, d, bytes, g)
         IN  [TreeDecodeLoop(ctx + ctx + r.bit, r.d, bytes,
                             ModelPut(model, ctx, r.prob), nb, inertia, g)
                 EXCEPT !.path = <<<<ctx, r.bit>>>> \o @]
    ELSE [d |-> d, model |-> model, ctx |-> ctx, path |-> <<>>]

\* decode returning ctx - kMSB
BitTreeModel_decode_WrongBase(model, nb, inertia, d, bytes, g) ==
    LET r == TreeDecodeLoop(1, d, bytes, model, nb, inertia, g)
    IN  [d |-> r.d, model |-> r.model, value |-> r.ctx - kMSB(nb),
         path |-> r.path]

\* decode returning ctx itself
BitTreeModel_decode_NoBase(model, nb, inertia, d, bytes, g) ==
    LET r == TreeDecodeLoop(1, d, bytes, model, nb, inertia, g)
    IN  [d |-> r.d, model |-> r.model, value |-> r.ctx, path |-> r.path]

\* size_t decode(BinArithDecoder &dec): return ctx - kNumSyms;
BitTreeModel_decode(model, nb, inertia, d, bytes, g) ==
    LET r == TreeDecodeLoop(1, d, bytes, model, nb, inertia, g)
    IN  [d |-> r.d, model |-> r.model, value |-> r.ctx - kNumSyms(nb),
         path |-> r.path]

\* -------------------------------------------- example_multisymbol session
\* BinShiftModel<5> in the example; 1 is the fastest adaptation
TreeInertias == {1, 5}

InitTree ==
    /\ source = <<>>
    /\ prob = 0
    /\ enc = BinArithEncoder_new
    /\ coded = <<>>
    /\ dec = NoDecoder
    /\ decoded = <<>>
    /\ pc = "encode"
    /\ Inertia \in TreeInertias
    /\ NumBits \in 1..MaxNumBits
    /\ enc_model = BitTreeModel_new(NumBits)
    /\ dec_model = BitTreeModel_new(NumBits)
    /\ path = <<>>

\* model.encode(coder, value), value any size_t up to twice the alphabet
TreeEncode(value) ==
    /\ pc = "encode"
    /\ Len(source) < MaxSyms
    /\ LET r == BitTreeModel_encode(enc_model, NumBits, Inertia, enc, coded, value)
       IN  /\ enc' = [lo |-> r.lo, hi |-> r.hi]
           /\ coded' = r.bytes
           /\ enc_model' = r.model
           /\ pc' = IF r.aborted THEN "abort" ELSE pc
           /\ source' = IF r.aborted THEN source ELSE Append(source, value)
           /\ path' = IF r.aborted THEN path ELSE r.path
    /\ UNCHANGED <<prob, dec, decoded, Inertia, NumBits, dec_model>>

TreeDecodeNeedsMore ==
    BitTreeModel_decode(dec_model, NumBits, Inertia, dec, coded, NoGarbage).d.read_pos
        > Len(coded)

\* decoded.push_back(model.decode(coder))
TreeDecode ==
    /\ pc = "decode"
    /\ Len(decoded) < Len(source)
    /\ IF ~TreeDecodeNeedsMore
       THEN LET r == BitTreeModel_decode(dec_model, NumBits, Inertia, dec, coded, NoGarbage)
            IN  /\ dec' = r.d
                /\ decoded' = Append(decoded, r.value)
                /\ dec_model' = r.model
                /\ path' = r.path
                /\ pc' = pc
       ELSE \/ \E g \in GarbageSeqs :
                 LET r == BitTreeModel_decode(dec_model, NumBits, Inertia, dec, coded, g)
                 IN  /\ dec' = r.d
                     /\ decoded' = Append(decoded, r.value)
                     /\ dec_model' = r.model
                     /\ path' = r.path
                     /\ pc' = pc
            \/ /\ dec' = [dec EXCEPT !.read_pos = Len(coded) + 1]
               /\ decoded' = decoded
               /\ dec_model' = dec_model
               /\ path' = path
               /\ pc' = "fault"
    /\ UNCHANGED <<source, prob, enc, coded, Inertia, NumBits, enc_model>>

NextTree ==
    \/ \E value \in 0..(2 * kNumSyms(NumBits) - 1) : TreeEncode(value)
    \/ Finalize
    \/ DecoderInit
    \/ TreeDecode

SpecTree == InitTree /\ [][NextTree]_vars

\* ------------- the two coders with a probability that changes per call
\* the two probabilities that narrow the interval fastest
CoderProbs == {1, kProbMax - 1}

InitCoder ==
    /\ source = <<>>
    /\ prob = 0
    /\ enc = BinArithEncoder_new
    /\ coded = <<>>
    /\ dec = NoDecoder
    /\ decoded = <<>>
    /\ pc = "encode"
    /\ Inertia = 0
    /\ NumBits = 0
    /\ enc_model = <<>>
    /\ dec_model = <<>>
    /\ path = <<>>

\* coder.encode(bit, p); source keeps the pair <<bit, p>>
CoderEncode(bit, p) ==
    /\ pc = "encode"
    /\ Len(source) < MaxCalls
    /\ LET r == BinArithEncoder_encode(enc, coded, bit, p)
       IN  /\ enc' = [lo |-> r.lo, hi |-> r.hi]
           /\ coded' = r.bytes
    /\ source' = Append(source, <<bit, p>>)
    /\ UNCHANGED <<path, prob, dec, decoded, pc, Inertia, NumBits, enc_model, dec_model>>

\* coder.decode(p), p the probability the encoder used for this bit
CoderDecode ==
    /\ pc = "decode"
    /\ Len(decoded) < Len(source)
    /\ LET p == source[Len(decoded) + 1][2]
       IN  IF ~DecodeNeedsMore(dec, coded, p)
           THEN LET r == BinArithDecoder_decode(dec, coded, p, NoGarbage)
                IN  /\ dec' = r.d
                    /\ decoded' = Append(decoded, <<r.bit, p>>)
                    /\ pc' = pc
           ELSE \/ \E g \in GarbageSeqs :
                     LET r == BinArithDecoder_decode(dec, coded, p, g)
                     IN  /\ dec' = r.d
                         /\ decoded' = Append(decoded, <<r.bit, p>>)
                         /\ pc' = pc
                \/ /\ dec' = [dec EXCEPT !.read_pos = Len(coded) + 1]
                   /\ decoded' = decoded
                   /\ pc' = "fault"
    /\ UNCHANGED <<path, source, prob, enc, coded, Inertia, NumBits, enc_model, dec_model>>

NextCoder ==
    \/ \E bit \in {0, 1}, p \in CoderProbs : CoderEncode(bit, p)
    \/ Finalize
    \/ DecoderInit
    \/ CoderDecode

SpecCoder == InitCoder /\ [][NextCoder]_vars

\* ------------------- a decoder over a source that no encoder has written
RawProbs == {1, kProbMax \div 2, kProbMax - 1}
RawBytes == {0, 127, 255}

RECURSIVE SeqsUpTo(_, _)
SeqsUpTo(S, n) ==
    IF n = 0 THEN {<<>>}
    ELSE LET shorter == SeqsUpTo(S, n - 1)
         IN  shorter \cup {Append(q, b) : q \in {r \in shorter : Len(r) = n - 1}, b \in S}

InitRaw ==
    /\ source = <<>>
    /\ prob = 0
    /\ enc = BinArithEncoder_new
    /\ coded \in SeqsUpTo(RawBytes, MaxRaw)
    /\ dec = NoDecoder
    /\ decoded = <<>>
    /\ pc = "coded"
    /\ Inertia = 0
    /\ NumBits = 0
    /\ enc_model = <<>>
    /\ dec_model = <<>>
    /\ path = <<>>

\* coder.decode(p), as often as the caller asks and with any probability
RawDecode(p) ==
    /\ pc = "decode"
    /\ Len(decoded) < MaxRawDecodes
    /\ IF ~DecodeNeedsMore(dec, coded, p)
       THEN LET r == BinArithDecoder_decode(dec, coded, p, NoGarbage)
            IN  /\ dec' = r.d
                /\ decoded' = Append(decoded, r.bit)
                /\ pc' = pc
       ELSE \/ \E g \in GarbageSeqs :
                 LET r == BinArithDecoder_decode(dec, coded, p, g)
                 IN  /\ dec' = r.d
                     /\ decoded' = Append(decoded, r.bit)
                     /\ pc' = pc
            \/ /\ dec' = [dec EXCEPT !.read_pos = Len(coded) + 1]
               /\ decoded' = decoded
               /\ pc' = "fault"
    /\ UNCHANGED <<path, source, prob, enc, coded, Inertia, NumBits, enc_model, dec_model>>

NextRaw ==
    \/ DecoderInit
    \/ \E p \in RawProbs : RawDecode(p)

SpecRaw == InitRaw /\ [][NextRaw]_vars

\* ------------------------------ BitTreeModel::decode over arbitrary bytes
\* a BitTreeModel decoding from any byte vector, not only an encoder's
InitTreeRaw ==
    /\ source = <<>>
    /\ prob = 0
    /\ enc = BinArithEncoder_new
    /\ coded \in SeqsUpTo(RawBytes, MaxRaw)
    /\ dec = NoDecoder
    /\ decoded = <<>>
    /\ pc = "coded"
    /\ Inertia \in TreeInertias
    /\ NumBits \in 1..MaxNumBits
    /\ enc_model = <<>>
    /\ dec_model = BitTreeModel_new(NumBits)
    /\ path = <<>>

\* model.decode(coder), as often as the caller asks
TreeRawDecode ==
    /\ pc = "decode"
    /\ Len(decoded) < MaxRawDecodes
    /\ IF ~TreeDecodeNeedsMore
       THEN LET r == BitTreeModel_decode(dec_model, NumBits, Inertia, dec, coded, NoGarbage)
            IN  /\ dec' = r.d
                /\ decoded' = Append(decoded, r.value)
                /\ dec_model' = r.model
                /\ path' = r.path
                /\ pc' = pc
       ELSE \/ \E g \in GarbageSeqs :
                 LET r == BitTreeModel_decode(dec_model, NumBits, Inertia, dec, coded, g)
                 IN  /\ dec' = r.d
                     /\ decoded' = Append(decoded, r.value)
                     /\ dec_model' = r.model
                     /\ path' = r.path
                     /\ pc' = pc
            \/ /\ dec' = [dec EXCEPT !.read_pos = Len(coded) + 1]
               /\ decoded' = decoded
               /\ dec_model' = dec_model
               /\ path' = path
               /\ pc' = "fault"
    /\ UNCHANGED <<source, prob, enc, coded, Inertia, NumBits, enc_model>>

NextTreeRaw ==
    \/ DecoderInit
    \/ TreeRawDecode

SpecTreeRaw == InitTreeRaw /\ [][NextTreeRaw]_vars

\* ================================================================ claims
Range(s) == {s[i] : i \in 1..Len(s)}

\* s is a prefix of t
IsPrefix(s, t) == Len(s) <= Len(t) /\ \A i \in 1..Len(s) : s[i] = t[i]

\* the four bytes of the word w, most significant first
BigEndian(w) == <<w[1] \div Byte, w[1] % Byte, w[2] \div Byte, w[2] % Byte>>

\* the last four bytes of a byte sequence of at least four
Tail4(bytes) == SubSeq(bytes, Len(bytes) - 3, Len(bytes))

\* C1: with a fixed probability strictly between 0 and kProbMax, the decoder
\* returns the encoded bits in order: what it has returned so far is always a
\* prefix of the source, and it never reads past the end of the stream.
C1_StaticRoundTrip ==
    (0 < prob /\ prob < kProbMax) =>
        /\ pc # "fault"
        /\ dec.read_pos <= Len(coded)
        /\ IsPrefix(decoded, source)

C1_Witness ==
    /\ pc = "decode"
    /\ 0 < prob /\ prob < kProbMax
    /\ Len(source) >= 4
    /\ Range(source) = {0, 1}
    /\ Len(coded) > 4
    /\ decoded = source

\* C2: bits encoded through a fresh BinShiftModel<Inertia> and decoded through
\* a second fresh BinShiftModel<Inertia> come back in order, bit for bit.
C2_AdaptiveRoundTrip ==
    /\ pc # "fault"
    /\ dec.read_pos <= Len(coded)
    /\ IsPrefix(decoded, source)

C2_Witness ==
    /\ pc = "decode"
    /\ Len(source) >= 4
    /\ Range(source) = {0, 1}
    /\ Len(coded) > 4
    /\ decoded = source
    /\ dec_model = enc_model
    /\ enc_model[1] # BinShiftModel_new

\* C3: symbols below 2^NumBits encoded with a fresh BitTreeModel and decoded
\* with another fresh BitTreeModel come back as the same symbol sequence.
C3_TreeRoundTrip ==
    /\ pc # "fault"
    /\ dec.read_pos <= Len(coded)
    /\ IsPrefix(decoded, source)

C3_Witness ==
    /\ pc = "decode"
    /\ NumBits >= 2
    /\ Len(source) >= 2
    /\ Cardinality(Range(source)) >= 2
    /\ decoded = source
    /\ dec_model = enc_model

\* C4: a decoder that needs a byte at a position past the end of its source
\* (at construction over fewer than 4 bytes, or in a renormalization) ends in
\* an OutOfDataError outcome, having read nothing past the end.
C4_TruncationFails ==
    dec.read_pos > Len(coded) => pc = "OutOfDataError"

\* C5: after every encode and decode call with probabilities strictly inside
\* (0, kProbMax), lo <= hi, and the next subdivision with any such probability
\* and either bit yields lo <= hi again, x + 1 not wrapping.
SubdivisionProbs ==
    {1, 2, kProbMax \div 5, kProbMax \div 2, kProbMax - 2, kProbMax - 1}

NextSubdivisionOK(lo, hi) ==
    \A p \in SubdivisionProbs, bit \in {0, 1} :
        LET s == EncSubdivide([lo |-> lo, hi |-> hi], bit, p)
        IN  /\ Leq32(s.lo, s.hi)
            /\ bit = 0 => Midpoint(lo, hi, p) # Ones32

C5_IntervalInvariant ==
    /\ pc = "encode" => Leq32(enc.lo, enc.hi) /\ NextSubdivisionOK(enc.lo, enc.hi)
    /\ pc = "decode" => Leq32(dec.lo, dec.hi) /\ NextSubdivisionOK(dec.lo, dec.hi)

\* a decoder whose interval has become narrower than kProbMax after
\* renormalization, so that the midpoint x is lo itself at probability 1
C5_Witness ==
    /\ pc = "decode"
    /\ Len(decoded) >= 2
    /\ dec.read_pos > 4
    /\ Lt32(Sub32(dec.hi, dec.lo), <<0, kProbMax>>)
    /\ Midpoint(dec.lo, dec.hi, 1) = dec.lo

\* C6: a decoder whose source had every byte it read keeps lo <= code <= hi,
\* after construction and after every decode call.
C6_ShadowState ==
    (pc = "decode" /\ dec.read_pos <= Len(coded)) =>
        /\ Leq32(dec.lo, dec.code)
        /\ Leq32(dec.code, dec.hi)

C6_Witness ==
    /\ pc = "decode"
    /\ Range(decoded) = {0, 1}
    /\ dec.read_pos > 4
    /\ dec.read_pos <= Len(coded)
    /\ Leq32(dec.lo, dec.code)
    /\ Leq32(dec.code, dec.hi)

\* C7: finalization appends exactly the four big-endian bytes of lo to the
\* bytes emitted so far, and with no encode call the output is those 4 bytes.
C7_WireFormat ==
    /\ [][(pc = "encode" /\ pc' = "coded") => coded' = coded \o BigEndian(enc.lo)]_vars
    /\ [](source = <<>> /\ pc # "encode" => Len(coded) = 4)

C7_Witness ==
    /\ pc = "coded"
    /\ Len(source) >= 2
    /\ Len(coded) > 4
    /\ Tail4(coded) # <<0, 0, 0, 0>>

\* C8: from any starting value strictly between 0 and kProbMax, adapt keeps
\* prob strictly between 0 and kProbMax.
C8_ProbStaysInside ==
    pc = "adapt" => (0 < enc_model[1] /\ enc_model[1] < kProbMax)

C8_Witness ==
    /\ pc = "adapt"
    /\ Len(source) = 2
    /\ Inertia = 1
    /\ enc_model[1] = kProbMax - 1

C10_OutOfRangeRejected ==
    [][\A value \in kNumSyms(NumBits)..(2 * kNumSyms(NumBits) - 1) :
          TreeEncode(value) =>
              /\ pc' = "abort"
              /\ UNCHANGED <<enc, coded, enc_model, source>>]_vars

C10_Witness ==
    /\ pc = "abort"
    /\ Len(source) >= 1
    /\ enc_model # BitTreeModel_new(NumBits)

\* C11: every value BitTreeModel::decode returns is a symbol of the alphabet,
\* 0 <= value < 2^NumBits, whatever bytes the decoder is fed, bytes past the
\* end of the vector included.
C11_DecodedInAlphabet ==
    \A i \in 1..Len(decoded) :
        /\ 0 <= decoded[i]
        /\ decoded[i] < 2^NumBits

\* two different symbols of a two-bit alphabet decoded from raw bytes, the
\* decoder having read past the end of the vector
C11_Witness ==
    /\ pc = "decode"
    /\ NumBits = 2
    /\ Len(decoded) = 2
    /\ decoded[1] # decoded[2]
    /\ 0 \in Range(decoded)
    /\ dec.read_pos > Len(coded)

\* C12: a static probability of exactly 0 or exactly kProbMax is rejected:
\* the session is stopped with an invalid-probability error before any
\* encode call narrows lo/hi or emits a byte and before any decode call
\* returns a bit.
C12_InvalidProbRejected ==
    prob \in {0, kProbMax} =>
        \/ pc = "InvalidProbabilityError"
        \/ /\ source = <<>>
           /\ decoded = <<>>
           /\ enc = BinArithEncoder_new

\* the encoder's lo, hi and sink after the first k calls of the session:
\* for (size_t i = 0; i < k; ++i) coder.encode(s[i].bit, s[i].prob)
RECURSIVE EncodeAll(_, _)
EncodeAll(s, k) ==
    IF k = 0
    THEN [lo |-> BinArithEncoder_new.lo, hi |-> BinArithEncoder_new.hi,
          bytes |-> <<>>]
    ELSE LET prev == EncodeAll(s, k - 1)
         IN  BinArithEncoder_encode([lo |-> prev.lo, hi |-> prev.hi],
                                    prev.bytes, s[k][1], s[k][2])

\* C14: the decoder runs in lock-step with the encoder, four bytes ahead:
\* after k decode calls its lo and hi are the encoder's after k encode
\* calls and read_pos is 4 plus the bytes the encoder's renormalization
\* emitted in those k calls; it never reads past the end of the stream, and
\* after the last bit read_pos is the length of the stream.
C14_LockStep ==
    /\ pc # "fault"
    /\ pc = "decode" =>
         LET k == Len(decoded)
             e == EncodeAll(source, k)
         IN  /\ dec.lo = e.lo
             /\ dec.hi = e.hi
             /\ dec.read_pos = 4 + Len(e.bytes)
             /\ dec.read_pos <= Len(coded)
             /\ k = Len(source) => dec.read_pos = Len(coded)

\* a stream whose renormalization emitted bytes, decoded to its last bit
C14_Witness ==
    /\ pc = "decode"
    /\ Len(source) >= 4
    /\ Len(decoded) = Len(source)
    /\ Len(coded) >= 6
    /\ dec.read_pos = Len(coded)

\* C15: every model slot BitTreeModel touches, in encode of a value below
\* 2^NumBits and in decode whatever bits come back, is model[ctx - 1] with
\* 1 <= ctx <= 2^NumBits - 1.
C15_ContextInRange ==
    \A i \in 1..Len(path) :
        /\ 1 <= path[i][1]
        /\ path[i][1] <= 2^NumBits - 1

\* a decode call that walked down to the last model of a two-bit tree,
\* after encode calls did the same
C15_Witness ==
    /\ pc = "decode"
    /\ NumBits = 2
    /\ Len(decoded) >= 2
    /\ Len(path) = 2
    /\ path[2][1] = 2^NumBits - 1

\* the <<ctx, bit>> calls BitTreeModel::encode makes for value v from the
\* current encoder state
EncodePath(v) ==
    BitTreeModel_encode(enc_model, NumBits, Inertia, enc, coded, v).path

\* the top n bits of the NumBits-bit value v
TopBits(v, n) == v \div 2^(NumBits - n)

\* C16: BitTreeModel::encode of a value makes exactly NumBits model calls,
\* coding the value's bits from the most to the least significant; the j-th
\* call uses the model at context 2^(j-1) + (the top j-1 bits of the value);
\* the models of one value are pairwise different, and two values use the
\* same model for their j-th bit exactly when their top j-1 bits agree.
C16_ContextPath ==
    /\ (pc \in {"encode", "coded"} /\ source # <<>>) =>
         LET v == source[Len(source)]
         IN  /\ Len(path) = NumBits
             /\ \A j \in 1..NumBits :
                    /\ path[j][1] = 2^(j - 1) + TopBits(v, j - 1)
                    /\ path[j][2] = TopBits(v, j) % 2
             /\ \A j, k \in 1..NumBits : j # k => path[j][1] # path[k][1]
    /\ pc = "encode" =>
         LET paths == {<<v, EncodePath(v)>> : v \in 0..(2^NumBits - 1)}
         IN  \A a, b \in paths : \A j \in 1..NumBits :
                 (a[2][j][1] = b[2][j][1])
                     <=> (TopBits(a[1], j - 1) = TopBits(b[1], j - 1))

\* the encoder has just coded the two-bit value 2 through models 1 and 3
C16_Witness ==
    /\ pc = "encode"
    /\ NumBits = 2
    /\ Len(source) >= 2
    /\ source[Len(source)] = 2
    /\ path = <<<<1, 1>>, <<3, 0>>>>

\* C17: with Inertia = 4 and a fresh model (prob = kProbMax / 2), every
\* adapt call of a run of 1 bits leaves prob no smaller than before and
\* below kProbMax, and every adapt call of a run of 0 bits leaves prob no
\* larger than before and above 0.
C17_RunMonotone ==
    [][source' # source =>
         IF source'[1] = 1
         THEN enc_model'[1] >= enc_model[1] /\ enc_model'[1] < kProbMax
         ELSE enc_model'[1] <= enc_model[1] /\ enc_model'[1] > 0]_vars

\* a run of 1 bits long enough for prob to have stopped moving
C17_Witness ==
    /\ pc = "run"
    /\ Inertia = 4
    /\ Len(source) >= 2
    /\ source[1] = 1
    /\ enc_model[1] > kProbMax \div 2
    /\ BinShiftModel_adapt(enc_model[1], 1, Inertia) = enc_model[1]

\* C18: the sink is append-only: every encode call and the final flush keep
\* the bytes already in the sink, in place, and only add bytes behind them;
\* an encode call changes nothing but lo, hi and the sink's tail (the
\* caller's position in its source aside).
C18_AppendOnly ==
    [][/\ IsPrefix(coded, coded')
       /\ (pc = "encode" /\ pc' = "encode") =>
            UNCHANGED <<prob, dec, decoded, Inertia, NumBits, enc_model,
                        dec_model, path>>
       /\ (pc = "encode" /\ pc' = "coded") =>
            /\ Len(coded') = Len(coded) + 4
            /\ enc'.hi = enc.hi]_vars

\* the flush has appended behind bytes that encode calls had emitted
C18_Witness ==
    /\ pc = "coded"
    /\ source # <<>>
    /\ Len(coded) >= 6
    /\ prob \in 1..(kProbMax - 1)

\* the calls of a static session, each with the session's probability
StaticCalls == [i \in 1..Len(source) |-> <<source[i], prob>>]

\* C19: in every encode call and every decode call whose subdivision leaves
\* lo <= hi, the renormalization loop runs at most 4 times (one byte written
\* or read per round), and when it stops the top bytes of lo and hi differ,
\* so lo < hi strictly.
C19_RenormBounded ==
    [][/\ (pc = "encode" /\ source' # source) =>
            LET s == EncSubdivide(enc, source'[Len(source')], prob)
            IN  Leq32(s.lo, s.hi) =>
                    /\ Len(coded') <= Len(coded) + 4
                    /\ Shr24(enc'.lo) # Shr24(enc'.hi)
                    /\ Lt32(enc'.lo, enc'.hi)
       /\ (pc = "decode" /\ decoded' # decoded) =>
            LET s == DecSubdivide(dec, prob).d
            IN  Leq32(s.lo, s.hi) =>
                    /\ dec'.read_pos <= dec.read_pos + 4
                    /\ Shr24(dec'.lo) # Shr24(dec'.hi)
                    /\ Lt32(dec'.lo, dec'.hi)]_vars

\* the last encode call narrowed the interval to a single value and its
\* renormalization ran the full 4 rounds, at a probability inside the range
C19_Witness ==
    /\ pc = "encode"
    /\ prob \in 1..(kProbMax - 1)
    /\ Len(source) >= 2
    /\ Len(coded) = Len(EncodeAll(StaticCalls, Len(source) - 1).bytes) + 4

====
